---- MODULE Spec2Model ----
(***************************************************************************)
(* Model of the backend described by the repository's FastAPI snippets     *)
(* (src/docker-compose.yml, lines 166-345): the users and todos tables,    *)
(* JWT creation and the get_current_user dependency, the todo routes and   *)
(* the TodoNotFoundError handler.  Handlers the repository does not carry  *)
(* (register, login, update, delete, the Todo and TodoCreate classes) are  *)
(* modelled from spec.md and are marked so in MODEL_MAP.json.              *)
(***************************************************************************)
EXTENDS Integers, Sequences, FiniteSets, TLC

VARIABLES
    users,    \* rows of the users table
    todos,    \* rows of the todos table
    now,      \* the clock (utcnow), in minutes
    tokens,   \* the access tokens minted so far, each with its minting time
    resp,     \* the last response sent, with the request it answers
    reqs      \* the requests in flight (handlers between their steps)

vars == <<users, todos, now, tokens, resp, reqs>>

\* ------------------------------------------------------------------ bounds
MaxUsers == 2
MaxTodos == 2
MaxTicks == 4
MaxTokens == 2
MaxReqs == 2

\* ------------------------------------------------------- program constants
\* create_access_token: expires_delta = timedelta(minutes=15); time is in minutes
TokenLifetime == 15
\* list_todos: skip: int = 0, limit: int = 100
DefaultSkip == 0
DefaultLimit == 100
\* UserCreate: password min_length=8, full_name min_length=1
MinPasswordLen == 8
MinFullNameLen == 1
HTTP_200_OK == 200
HTTP_201_CREATED == 201
HTTP_204_NO_CONTENT == 204
HTTP_401_UNAUTHORIZED == 401
HTTP_403_FORBIDDEN == 403
HTTP_404_NOT_FOUND == 404
HTTP_409_CONFLICT == 409
HTTP_422_UNPROCESSABLE == 422

SECRET_KEY == "secret"
NoUser == 0
NoTodoId == 0
NoToken == [sub |-> NoUser, exp |-> 0, key |-> "none"]

\* The model advances the clock in steps of a third of the token lifetime,
\* so that instants before, at and after an expiry are all reached.
TickStep == TokenLifetime \div 3

Min(a, b) == IF a <= b THEN a ELSE b

\* ------------------------------------------------------------- the store
\* SQLite INTEGER PRIMARY KEY: a new row gets the largest id in use plus one.
NextId(rows) == IF rows = {} THEN 1 ELSE 1 + (CHOOSE i \in {r.id : r \in rows} : \A r \in rows : r.id <= i)

\* User.email: SQLField(unique=True, index=True): the unique index compares
\* the stored strings as they are.
EmailTaken(email) == \E u \in users : u.email = email

\* get_user_by_id(user_id), against a users table
get_user_by_id(table, user_id) == {u \in table : u.id = user_id}

\* ------------------------------------------------------------ responses
NoRows == << >>
NoTitle == ""
NoPatch == [title |-> NoTitle, completed |-> "keep"]
Request(token, id, skip, limit, title, patch) ==
    [token |-> token, id |-> id, skip |-> skip, limit |-> limit, title |-> title, patch |-> patch]
NoRequest == Request(NoToken, NoTodoId, 0, 0, NoTitle, NoPatch)
TokenOnly(token) == Request(token, NoTodoId, 0, 0, NoTitle, NoPatch)
Response(op, req, status, detail, rows, user) ==
    [op |-> op, req |-> req, status |-> status, detail |-> detail, rows |-> rows, user |-> user]
NoResponse == Response("none", NoRequest, 0, "", NoRows, NoUser)

\* ------------------------------------------------------------------ auth
\* Mutant: the expiry is the time of minting, expires_delta is dropped.
create_access_token_NoDelta(sub, expires_delta) == [sub |-> sub, exp |-> now, key |-> SECRET_KEY]

\* create_access_token(data, expires_delta): exp = utcnow() + expires_delta,
\* signed with SECRET_KEY.
create_access_token(sub, expires_delta) == [sub |-> sub, exp |-> now + expires_delta, key |-> SECRET_KEY]

\* jwt.decode(token, SECRET_KEY): the signature must verify and exp must not
\* lie before the current time.
jwt_decode_ok(token, t) == token.key = SECRET_KEY /\ ~(token.exp < t)

\* Mutant: a deactivated user is refused as well.
get_current_user_in_ActiveOnly(token, table, t) ==
    IF ~jwt_decode_ok(token, t) \/ token.sub = NoUser
    THEN [ok |-> FALSE, id |-> NoUser, status |-> HTTP_401_UNAUTHORIZED, detail |-> "Invalid token"]
    ELSE IF {u \in table : u.id = token.sub /\ u.is_active} = {}
         THEN [ok |-> FALSE, id |-> NoUser, status |-> HTTP_401_UNAUTHORIZED, detail |-> "User not found"]
         ELSE [ok |-> TRUE, id |-> token.sub, status |-> HTTP_200_OK, detail |-> ""]

\* get_current_user(token) against a users table at time t: the user row, or
\* the 401 it raises.
get_current_user_in(token, table, t) ==
    IF ~jwt_decode_ok(token, t) \/ token.sub = NoUser
    THEN [ok |-> FALSE, id |-> NoUser, status |-> HTTP_401_UNAUTHORIZED, detail |-> "Invalid token"]
    ELSE IF get_user_by_id(table, token.sub) = {}
         THEN [ok |-> FALSE, id |-> NoUser, status |-> HTTP_401_UNAUTHORIZED, detail |-> "User not found"]
         ELSE [ok |-> TRUE, id |-> token.sub, status |-> HTTP_200_OK, detail |-> ""]

get_current_user(token) == get_current_user_in(token, users, now)

Unauthorized(op, token, cu) == Response(op, TokenOnly(token), cu.status, cu.detail, NoRows, NoUser)

\* --------------------------------------------------------------- inputs
Emails == {"a@x.com", "A@x.com", "b@x.com"}
BadEmail == "not-an-email"
GoodPassword == "password123"
OtherPassword == "hunter2hunter2"
ShortPassword == "short"
FullName == "Ann"
Titles == {"Buy milk", "Walk dog"}
ForgedTokens == {[sub |-> 1, exp |-> MaxTicks * TickStep + TokenLifetime, key |-> "forged"]}

\* UserCreate: email: EmailStr, password min_length=8, full_name min_length=1
UserCreateValid(email, password, full_name) ==
    /\ email \in Emails
    /\ Len(password) >= MinPasswordLen
    /\ Len(full_name) >= MinFullNameLen

\* Bodies that UserCreate refuses, each for one field.
InvalidUserCreates ==
    {<<BadEmail, GoodPassword, FullName>>, <<"a@x.com", ShortPassword, FullName>>, <<"a@x.com", GoodPassword, "">>}

\* pwd_context.hash / verify (bcrypt): the hash is not the plaintext and
\* verifies against exactly the password it was made from.
pwd_hash(password) == <<"bcrypt", password>>
pwd_verify(password, hashed) == hashed = pwd_hash(password)

\* --------------------------------------------------------- auth handlers
RegisterBody(email, password, full_name) ==
    IF ~UserCreateValid(email, password, full_name)
    THEN /\ resp' = Response("register", NoRequest, HTTP_422_UNPROCESSABLE, "validation error", NoRows, NoUser)
         /\ UNCHANGED users
    ELSE IF EmailTaken(email)
    THEN /\ resp' = Response("register", NoRequest, HTTP_409_CONFLICT, "DuplicateEmail", NoRows, NoUser)
         /\ UNCHANGED users
    ELSE /\ Cardinality(users) < MaxUsers
         /\ users' = users \cup {[id |-> NextId(users), email |-> email, full_name |-> full_name,
                                  hashed_password |-> pwd_hash(password), is_active |-> TRUE,
                                  created_at |-> now]}
         /\ resp' = Response("register", NoRequest, HTTP_201_CREATED, "", NoRows, NextId(users))

Register(email, password, full_name) ==
    /\ RegisterBody(email, password, full_name)
    /\ UNCHANGED <<todos, now, tokens, reqs>>

Authenticate(email, password) ==
    /\ Cardinality(tokens) < MaxTokens
    /\ LET found == {u \in users : u.email = email /\ pwd_verify(password, u.hashed_password)} IN
       IF found = {}
       THEN /\ resp' = Response("login", NoRequest, HTTP_401_UNAUTHORIZED, "InvalidCredentials", NoRows, NoUser)
            /\ UNCHANGED tokens
       ELSE LET u == CHOOSE u \in found : TRUE IN
            /\ tokens' = tokens \cup {[token |-> create_access_token(u.id, TokenLifetime), minted_at |-> now]}
            /\ resp' = Response("login", NoRequest, HTTP_200_OK, "", NoRows, u.id)
    /\ UNCHANGED <<users, todos, now, reqs>>

Deactivate(id) ==
    /\ \E u \in users : u.id = id /\ u.is_active
    /\ users' = {IF u.id = id THEN [u EXCEPT !.is_active = FALSE] ELSE u : u \in users}
    /\ resp' = Response("deactivate", NoRequest, HTTP_200_OK, "", NoRows, id)
    /\ UNCHANGED <<todos, now, tokens, reqs>>

Tick(maxTicks) ==
    /\ now < maxTicks * TickStep
    /\ now' = now + TickStep
    /\ UNCHANGED <<users, todos, tokens, resp, reqs>>

\* A request slot with no handler running in it.
Idle == [op |-> "idle", pc |-> "idle", caller |-> NoUser, email |-> "", req |-> NoRequest, pending |-> {}]

Init ==
    /\ users = {}
    /\ todos = {}
    /\ now = 0
    /\ tokens = {}
    /\ resp = NoResponse
    /\ reqs = [r \in 1..MaxReqs |-> Idle]

NextAuth ==
    \/ \E e \in {"a@x.com", "A@x.com"} : Register(e, GoodPassword, FullName)
    \/ \E bad \in InvalidUserCreates : Register(bad[1], bad[2], bad[3])
    \/ \E e \in {"a@x.com", "A@x.com"}, p \in {GoodPassword, OtherPassword} : Authenticate(e, p)
    \/ \E id \in 1..MaxUsers : Deactivate(id)
    \/ Tick(MaxTicks)

SpecAuth == Init /\ [][NextAuth]_vars

\* ---------------------------------------------------------- todo handlers
\* The bearer tokens a request can carry: a minted one, one signed with
\* another key, or none.
MintedTokens == {m.token : m \in tokens}
BadTokens == ForgedTokens \cup {NoToken}
TokenInputs == MintedTokens \cup BadTokens

\* TodoCreate: the title is not empty.
TodoCreateValid(title) == title # NoTitle

\* A SELECT without ORDER BY returns the matching rows in an order the
\* database is free to choose.
Orderings(rows) == {s \in [1..Cardinality(rows) -> rows] : \A i, j \in DOMAIN s : i # j => s[i] # s[j]}

\* .offset(skip).limit(limit)
OffsetLimit(s, skip, limit) == SubSeq(s, skip + 1, Min(Len(s), skip + limit))

\* Mutant: the query without its filter.
OwnedBy_AnyUser(user_id) == todos

\* db.query(Todo).filter(Todo.user_id == user.id)
OwnedBy(user_id) == {t \in todos : t.user_id = user_id}

ListTodos(token, skip, limit) ==
    /\ LET cu == get_current_user(token) IN
       IF ~cu.ok
       THEN resp' = Unauthorized("list_todos", token, cu)
       ELSE \E s \in Orderings(OwnedBy(cu.id)) :
               resp' = Response("list_todos", Request(token, NoTodoId, skip, limit, NoTitle, NoPatch),
                                HTTP_200_OK, "", OffsetLimit(s, skip, limit), cu.id)
    /\ UNCHANGED <<users, todos, now, tokens, reqs>>

\* Todo(**todo_in.model_dump(), user_id=user.id); id is None until the insert
TodoObject(title, user_id) ==
    [id |-> NoTodoId, user_id |-> user_id, title |-> title, completed |-> FALSE, created_at |-> now]

\* The row an INSERT of the object stores.
Inserted(obj) == [obj EXCEPT !.id = NextId(todos)]

\* Mutant: the body is validated after the row has been inserted.
CreateTodo_InsertsBeforeValidation(token, title) ==
    /\ LET cu == get_current_user(token)
           req == Request(token, NoTodoId, 0, 0, title, NoPatch)
           todo == Inserted(TodoObject(title, cu.id)) IN
       IF ~cu.ok
       THEN /\ resp' = Unauthorized("create_todo", token, cu)
            /\ UNCHANGED todos
       ELSE /\ Cardinality(todos) < MaxTodos
            /\ todos' = todos \cup {todo}
            /\ resp' = IF TodoCreateValid(title)
                       THEN Response("create_todo", req, HTTP_201_CREATED, "", <<todo>>, cu.id)
                       ELSE Response("create_todo", req, HTTP_422_UNPROCESSABLE, "validation error", NoRows, cu.id)
    /\ UNCHANGED <<users, now, tokens, reqs>>

CreateTodo(token, title) ==
    /\ LET cu == get_current_user(token)
           req == Request(token, NoTodoId, 0, 0, title, NoPatch) IN
       IF ~cu.ok
       THEN /\ resp' = Unauthorized("create_todo", token, cu)
            /\ UNCHANGED todos
       ELSE IF ~TodoCreateValid(title)
       THEN /\ resp' = Response("create_todo", req, HTTP_422_UNPROCESSABLE, "validation error", NoRows, cu.id)
            /\ UNCHANGED todos
       ELSE LET todo == Inserted(TodoObject(title, cu.id)) IN
            /\ Cardinality(todos) < MaxTodos
            /\ todos' = todos \cup {todo}
            /\ resp' = Response("create_todo", req, HTTP_201_CREATED, "", <<todo>>, cu.id)
    /\ UNCHANGED <<users, now, tokens, reqs>>

\* Mutant: the handler without its status_code (JSONResponse answers 200).
todo_not_found_handler_Status200(op, req) == Response(op, req, HTTP_200_OK, "Todo not found", NoRows, NoUser)

\* @app.exception_handler(TodoNotFoundError)
todo_not_found_handler(op, req) == Response(op, req, HTTP_404_NOT_FOUND, "Todo not found", NoRows, NoUser)

Forbidden(op, req) == Response(op, req, HTTP_403_FORBIDDEN, "Forbidden", NoRows, NoUser)

\* A patch names the fields it sets; NoTitle and "keep" stand for a field it
\* leaves out.
Patches ==
    {[title |-> "Walk dog", completed |-> "keep"], [title |-> NoTitle, completed |-> "true"],
     [title |-> NoTitle, completed |-> "false"], [title |-> "Walk dog", completed |-> "true"]}

Completed == [title |-> NoTitle, completed |-> "true"]

\* Mutant: the patch replaces the todo's fields, also those it leaves out.
ApplyPatch_Replace(t, patch) == [t EXCEPT !.title = patch.title, !.completed = patch.completed = "true"]

ApplyPatch(t, patch) ==
    [t EXCEPT !.title = IF patch.title = NoTitle THEN @ ELSE patch.title,
              !.completed = IF patch.completed = "keep" THEN @ ELSE patch.completed = "true"]

UpdateTodo(token, id, patch) ==
    /\ LET cu == get_current_user(token)
           req == Request(token, id, 0, 0, NoTitle, patch)
           found == {t \in todos : t.id = id} IN
       IF ~cu.ok
       THEN /\ resp' = Unauthorized("update_todo", token, cu)
            /\ UNCHANGED todos
       ELSE IF found = {}
       THEN /\ resp' = todo_not_found_handler("update_todo", req)
            /\ UNCHANGED todos
       ELSE LET t == CHOOSE t \in found : TRUE IN
            IF t.user_id # cu.id
            THEN /\ resp' = Forbidden("update_todo", req)
                 /\ UNCHANGED todos
            ELSE /\ todos' = (todos \ {t}) \cup {ApplyPatch(t, patch)}
                 /\ resp' = Response("update_todo", req, HTTP_200_OK, "", <<ApplyPatch(t, patch)>>, cu.id)
    /\ UNCHANGED <<users, now, tokens, reqs>>

DeleteTodo(token, id) ==
    /\ LET cu == get_current_user(token)
           req == Request(token, id, 0, 0, NoTitle, NoPatch)
           found == {t \in todos : t.id = id} IN
       IF ~cu.ok
       THEN /\ resp' = Unauthorized("delete_todo", token, cu)
            /\ UNCHANGED todos
       ELSE IF found = {}
       THEN /\ resp' = todo_not_found_handler("delete_todo", req)
            /\ UNCHANGED todos
       ELSE LET t == CHOOSE t \in found : TRUE IN
            IF t.user_id # cu.id
            THEN /\ resp' = Forbidden("delete_todo", req)
                 /\ UNCHANGED todos
            ELSE /\ todos' = todos \ {t}
                 /\ resp' = Response("delete_todo", req, HTTP_204_NO_CONTENT, "", NoRows, cu.id)
    /\ UNCHANGED <<users, now, tokens, reqs>>

Skips == {DefaultSkip, 1}
Limits == {1, DefaultLimit}
TodoIds == 1..(MaxTodos + 1)

\* The todo requests with a token that get_current_user refuses: they are
\* answered before their other parameters matter.
BadTokenRequests(tk) ==
    \/ ListTodos(tk, DefaultSkip, DefaultLimit)
    \/ CreateTodo(tk, "Buy milk")
    \/ CreateTodo(tk, NoTitle)
    \/ UpdateTodo(tk, 1, NoPatch)
    \/ DeleteTodo(tk, 1)

NextTodos ==
    \/ \E e \in {"a@x.com", "b@x.com"} : Register(e, GoodPassword, FullName)
    \/ \E e \in {"a@x.com", "b@x.com"} : Authenticate(e, GoodPassword)
    \/ \E tk \in MintedTokens, skip \in Skips, limit \in Limits : ListTodos(tk, skip, limit)
    \/ \E tk \in MintedTokens, title \in {"Buy milk", NoTitle} : CreateTodo(tk, title)
    \/ \E tk \in MintedTokens, id \in TodoIds : UpdateTodo(tk, id, Completed)
    \/ \E tk \in MintedTokens, id \in TodoIds : DeleteTodo(tk, id)
    \/ \E tk \in BadTokens : BadTokenRequests(tk)

SpecTodos == Init /\ [][NextTodos]_vars

\* Updates: the first user owns todos; both users list, patch and delete.
NextUpdate ==
    \/ \E e \in {"a@x.com", "b@x.com"} : Register(e, GoodPassword, FullName)
    \/ \E e \in {"a@x.com", "b@x.com"} : Authenticate(e, GoodPassword)
    \/ \E tk \in MintedTokens : tk.sub = 1 /\ CreateTodo(tk, "Buy milk")
    \/ \E tk \in MintedTokens : ListTodos(tk, DefaultSkip, DefaultLimit)
    \/ \E tk \in MintedTokens, id \in TodoIds, patch \in Patches : UpdateTodo(tk, id, patch)
    \/ \E tk \in MintedTokens, id \in TodoIds : DeleteTodo(tk, id)
    \/ \E tk \in BadTokens : UpdateTodo(tk, 1, Completed)

SpecUpdate == Init /\ [][NextUpdate]_vars

\* One user, one title and a clock: the order of a listing.
NextList ==
    \/ Register("a@x.com", GoodPassword, FullName)
    \/ Authenticate("a@x.com", GoodPassword)
    \/ Tick(MaxTicks)
    \/ \E tk \in MintedTokens : CreateTodo(tk, "Buy milk")
    \/ \E tk \in MintedTokens, skip \in Skips, limit \in Limits : ListTodos(tk, skip, limit)

SpecList == Init /\ [][NextList]_vars

\* ------------------------------------------------- handlers, step by step
\* The handlers as the workers run them (fastapi run --workers 4): each
\* request holds a slot and a database session of its own; what it has added
\* to the session and not committed is in the slot's pending set.
Slots == 1..MaxReqs

Slot(op, pc, caller, email, req, pending) ==
    [op |-> op, pc |-> pc, caller |-> caller, email |-> email, req |-> req, pending |-> pending]

At(r, op, pc) == reqs[r].op = op /\ reqs[r].pc = pc

Finish(r) == reqs' = [reqs EXCEPT ![r] = Idle]

UserObject(email) ==
    [id |-> NoUser, email |-> email, full_name |-> FullName,
     hashed_password |-> pwd_hash(GoodPassword), is_active |-> TRUE, created_at |-> now]

StartRegister(r, email) ==
    /\ reqs[r] = Idle
    /\ UserCreateValid(email, GoodPassword, FullName)
    /\ reqs' = [reqs EXCEPT ![r] = Slot("register", "check", NoUser, email, NoRequest, {})]
    /\ UNCHANGED <<users, todos, now, tokens, resp>>

\* The handler looks the email up before it inserts.
RegisterCheck(r) ==
    /\ At(r, "register", "check")
    /\ IF EmailTaken(reqs[r].email)
       THEN /\ resp' = Response("register", NoRequest, HTTP_409_CONFLICT, "DuplicateEmail", NoRows, NoUser)
            /\ Finish(r)
       ELSE /\ reqs' = [reqs EXCEPT ![r].pc = "commit", ![r].pending = {UserObject(reqs[r].email)}]
            /\ UNCHANGED resp
    /\ UNCHANGED <<users, todos, now, tokens>>

\* The INSERT and COMMIT: the unique index on users.email refuses a second
\* row with the same string.
RegisterCommit(r) ==
    /\ At(r, "register", "commit")
    /\ IF EmailTaken(reqs[r].email)
       THEN /\ resp' = Response("register", NoRequest, HTTP_409_CONFLICT, "DuplicateEmail", NoRows, NoUser)
            /\ UNCHANGED users
       ELSE /\ Cardinality(users) < MaxUsers
            /\ users' = users \cup {[u EXCEPT !.id = NextId(users)] : u \in reqs[r].pending}
            /\ resp' = Response("register", NoRequest, HTTP_201_CREATED, "", NoRows, NextId(users))
    /\ Finish(r)
    /\ UNCHANGED <<todos, now, tokens>>

\* create_todo: its dependencies (get_current_user, the TodoCreate body)
\* are resolved before its body runs.
StartCreate(r, token, title) ==
    /\ reqs[r] = Idle
    /\ LET cu == get_current_user(token)
           req == Request(token, NoTodoId, 0, 0, title, NoPatch) IN
       IF ~cu.ok
       THEN /\ resp' = Unauthorized("create_todo", token, cu)
            /\ UNCHANGED reqs
       ELSE IF ~TodoCreateValid(title)
       THEN /\ resp' = Response("create_todo", req, HTTP_422_UNPROCESSABLE, "validation error", NoRows, cu.id)
            /\ UNCHANGED reqs
       ELSE /\ reqs' = [reqs EXCEPT ![r] = Slot("create_todo", "add", cu.id, "", req, {})]
            /\ UNCHANGED resp
    /\ UNCHANGED <<users, todos, now, tokens>>

\* Mutant: db.add writes the object, still without its id, to the table.
CreateAdd_WritesThrough(r) ==
    /\ At(r, "create_todo", "add")
    /\ reqs' = [reqs EXCEPT ![r].pc = "commit",
                            ![r].pending = {TodoObject(reqs[r].req.title, reqs[r].caller)}]
    /\ todos' = todos \cup {TodoObject(reqs[r].req.title, reqs[r].caller)}
    /\ UNCHANGED <<users, now, tokens, resp>>

\* todo = Todo(...); db.add(todo): the object is pending in the session
CreateAdd(r) ==
    /\ At(r, "create_todo", "add")
    /\ reqs' = [reqs EXCEPT ![r].pc = "commit",
                            ![r].pending = {TodoObject(reqs[r].req.title, reqs[r].caller)}]
    /\ UNCHANGED <<users, todos, now, tokens, resp>>

\* db.commit(): the pending object is inserted and the transaction committed
CreateCommit(r) ==
    /\ At(r, "create_todo", "commit")
    /\ Cardinality(todos) < MaxTodos
    /\ todos' = todos \cup {Inserted(obj) : obj \in reqs[r].pending}
    /\ reqs' = [reqs EXCEPT ![r].pc = "refresh",
                            ![r].pending = {Inserted(obj) : obj \in reqs[r].pending}]
    /\ UNCHANGED <<users, now, tokens, resp>>

\* db.refresh(todo); return todo
CreateReturn(r) ==
    /\ At(r, "create_todo", "refresh")
    /\ LET todo == CHOOSE t \in reqs[r].pending : TRUE IN
       resp' = Response("create_todo", reqs[r].req, HTTP_201_CREATED, "", <<todo>>, reqs[r].caller)
    /\ Finish(r)
    /\ UNCHANGED <<users, todos, now, tokens>>

StartUpdate(r, token, id, patch) ==
    /\ reqs[r] = Idle
    /\ LET cu == get_current_user(token)
           req == Request(token, id, 0, 0, NoTitle, patch)
           found == {t \in todos : t.id = id} IN
       IF ~cu.ok
       THEN /\ resp' = Unauthorized("update_todo", token, cu)
            /\ UNCHANGED reqs
       ELSE IF found = {}
       THEN /\ resp' = todo_not_found_handler("update_todo", req)
            /\ UNCHANGED reqs
       ELSE IF \E t \in found : t.user_id # cu.id
       THEN /\ resp' = Forbidden("update_todo", req)
            /\ UNCHANGED reqs
       ELSE /\ reqs' = [reqs EXCEPT ![r] = Slot("update_todo", "set_title", cu.id, "", req, found)]
            /\ UNCHANGED resp
    /\ UNCHANGED <<users, todos, now, tokens>>

\* The handler sets the patched fields on the loaded object one by one.
UpdateSetTitle(r) ==
    /\ At(r, "update_todo", "set_title")
    /\ reqs' = [reqs EXCEPT ![r].pc = "set_completed",
                            ![r].pending = {ApplyPatch(t, [reqs[r].req.patch EXCEPT !.completed = "keep"]) : t \in @}]
    /\ UNCHANGED <<users, todos, now, tokens, resp>>

UpdateSetCompleted(r) ==
    /\ At(r, "update_todo", "set_completed")
    /\ reqs' = [reqs EXCEPT ![r].pc = "commit",
                            ![r].pending = {ApplyPatch(t, [reqs[r].req.patch EXCEPT !.title = NoTitle]) : t \in @}]
    /\ UNCHANGED <<users, todos, now, tokens, resp>>

\* The UPDATE of the changed columns and the COMMIT; a row deleted in the
\* meantime makes the update fail.
UpdateCommit(r) ==
    /\ At(r, "update_todo", "commit")
    /\ LET found == {t \in todos : t.id = reqs[r].req.id /\ t.user_id = reqs[r].caller} IN
       IF found = {}
       THEN /\ resp' = todo_not_found_handler("update_todo", reqs[r].req)
            /\ UNCHANGED todos
       ELSE LET t == CHOOSE t \in found : TRUE IN
            /\ todos' = (todos \ {t}) \cup {ApplyPatch(t, reqs[r].req.patch)}
            /\ resp' = Response("update_todo", reqs[r].req, HTTP_200_OK, "",
                                <<ApplyPatch(t, reqs[r].req.patch)>>, reqs[r].caller)
    /\ Finish(r)
    /\ UNCHANGED <<users, now, tokens>>

\* The caller gives the request up, or its worker dies: the session is
\* closed and what it had not committed is rolled back.
Abandon(r) ==
    /\ reqs[r] # Idle
    /\ Finish(r)
    /\ UNCHANGED <<users, todos, now, tokens, resp>>

\* Registrations whose check and insert steps interleave.
NextRegister ==
    \/ \E r \in Slots, e \in Emails : StartRegister(r, e)
    \/ \E r \in Slots : RegisterCheck(r)
    \/ \E r \in Slots : RegisterCommit(r)
    \/ \E r \in Slots : Abandon(r)

SpecRegister == Init /\ [][NextRegister]_vars

BothFields == [title |-> "Walk dog", completed |-> "true"]

\* Writes that other requests, and abandonment, interleave with.
NextWrites ==
    \/ \E r \in Slots : StartRegister(r, "a@x.com")
    \/ \E r \in Slots : RegisterCheck(r)
    \/ \E r \in Slots : RegisterCommit(r)
    \/ Authenticate("a@x.com", GoodPassword)
    \/ \E r \in Slots, tk \in MintedTokens : StartCreate(r, tk, "Buy milk")
    \/ \E r \in Slots : CreateAdd(r)
    \/ \E r \in Slots : CreateCommit(r)
    \/ \E r \in Slots : CreateReturn(r)
    \/ \E r \in Slots, tk \in MintedTokens : StartUpdate(r, tk, 1, BothFields)
    \/ \E r \in Slots : UpdateSetTitle(r)
    \/ \E r \in Slots : UpdateSetCompleted(r)
    \/ \E r \in Slots : UpdateCommit(r)
    \/ \E tk \in MintedTokens : DeleteTodo(tk, 1)
    \/ \E tk \in MintedTokens : ListTodos(tk, DefaultSkip, DefaultLimit)
    \/ \E r \in Slots : Abandon(r)

SpecWrites == Init /\ [][NextWrites]_vars

\* ------------------------------------------------------------ claims: auth
\* Case-insensitive comparison of the emails the model registers.
Lower(email) == IF email = "A@x.com" THEN "a@x.com" ELSE email

\* C2: a register call whose email equals, ignoring letter case, the email of
\* a stored user fails with DuplicateEmail and leaves the users unchanged.
C2_DuplicateIgnoringCaseRejected ==
    [][\A e \in Emails :
        (Register(e, GoodPassword, FullName) /\ \E u \in users : Lower(u.email) = Lower(e))
            => (users' = users /\ resp'.status = HTTP_409_CONFLICT /\ resp'.detail = "DuplicateEmail")]_vars

Accepted(m, table, t) ==
    LET cu == get_current_user_in(m.token, table, t) IN cu.ok /\ cu.id = m.token.sub

Rejected401(m, table, t) ==
    LET cu == get_current_user_in(m.token, table, t) IN
    ~cu.ok /\ cu.status = HTTP_401_UNAUTHORIZED /\ cu.detail = "Invalid token"

\* C3: a token minted at time t for a user is accepted, yielding that user,
\* at every time before t + TokenLifetime and rejected with 401 at every time
\* after it; and a step that does not move the clock never makes an accepted
\* minted token stop being accepted.
C3_TokenValidUntilExpiry ==
    /\ [](\A m \in tokens :
            /\ m.token.sub \in {u.id : u \in users}
            /\ now < m.minted_at + TokenLifetime => Accepted(m, users, now)
            /\ now > m.minted_at + TokenLifetime => Rejected401(m, users, now))
    /\ [][\A m \in tokens :
            (Accepted(m, users, now) /\ now' = now) => Accepted(m, users', now')]_vars

\* C3 witness: one minted token has been seen before its expiry and another
\* after it, and the subject of a still accepted token has been deactivated.
C3_Witness ==
    /\ \E m \in tokens : now > m.minted_at + TokenLifetime /\ Rejected401(m, users, now)
    /\ \E m \in tokens : /\ now < m.minted_at + TokenLifetime
                          /\ now > m.minted_at
                          /\ Accepted(m, users, now)
                          /\ \E u \in users : u.id = m.token.sub /\ ~u.is_active

\* The users tables of the states the run went through before the rows with
\* the largest ids were inserted (the empty table of Init among them).
EarlierTables == {{u \in users : u.id <= k} : k \in 0..Cardinality(users)}

TableVariants ==
    UNION {SUBSET ({u, [u EXCEPT !.is_active = ~u.is_active]}) : u \in users} \cup
    {{[u EXCEPT !.is_active = FALSE] : u \in users}} \cup SUBSET users

HasRow(table, id) == \E u \in table : u.id = id

Range(s) == {s[i] : i \in DOMAIN s}

\* The user a todo request was made as (get_current_user on its token).
CallerOf(r) == get_current_user(r.req.token)

IsTodoOp(r) == r.op \in {"list_todos", "create_todo", "update_todo", "delete_todo"}

\* C1: a listing for user u holds only todos owned by u and, read from the
\* start with a limit that covers them, every one of them; a todo is owned by
\* the user who created it, keeps that owner, and leaves the store only when
\* its owner deletes it.
C1_ListShowsExactlyOwnTodos ==
    /\ [](/\ (resp.op = "list_todos" /\ resp.status = HTTP_200_OK) =>
                LET mine == {t \in todos : t.user_id = CallerOf(resp).id} IN
                /\ CallerOf(resp).ok
                /\ Range(resp.rows) \subseteq mine
                /\ (resp.req.skip = DefaultSkip /\ resp.req.limit >= Cardinality(mine))
                        => Range(resp.rows) = mine
          /\ (resp.op = "create_todo" /\ resp.status = HTTP_201_CREATED) =>
                /\ resp.rows[1] \in todos
                /\ resp.rows[1].user_id = CallerOf(resp).id
                /\ resp.rows[1].title = resp.req.title)
    /\ [][/\ \A t \in todos, t2 \in todos' : t2.id = t.id => t2.user_id = t.user_id
          /\ \A t \in todos : (\A t2 \in todos' : t2.id # t.id) =>
                /\ resp'.op = "delete_todo" /\ resp'.req.id = t.id
                /\ CallerOf(resp').ok /\ CallerOf(resp').id = t.user_id
          /\ \A t2 \in todos' : (\A t \in todos : t.id # t2.id) =>
                /\ resp'.op = "create_todo"
                /\ CallerOf(resp').ok /\ CallerOf(resp').id = t2.user_id]_vars

\* C1 witness: a user's listing shows a todo while the store also holds a
\* todo of another user.
C1_Witness ==
    /\ resp.op = "list_todos" /\ resp.status = HTTP_200_OK /\ Len(resp.rows) >= 1
    /\ \E t \in todos : t.user_id # resp.user

\* C4: a delete of an id no todo has fails with 404, a delete of another
\* user's todo fails with 403 or 404, and both leave the stored todos as
\* they were.
C4_FailedDeleteChangesNothing ==
    [][(resp'.op = "delete_todo" /\ CallerOf(resp').ok) =>
            LET found == {t \in todos : t.id = resp'.req.id} IN
            /\ found = {} => (resp'.status = HTTP_404_NOT_FOUND /\ todos' = todos)
            /\ (found # {} /\ \A t \in found : t.user_id # CallerOf(resp').id) =>
                   (resp'.status \in {HTTP_403_FORBIDDEN, HTTP_404_NOT_FOUND} /\ todos' = todos)]_vars

\* C4 witness: a delete of an absent id has been answered 404 while both
\* users have a todo in the store.
C4_Witness ==
    /\ resp.op = "delete_todo" /\ resp.status = HTTP_404_NOT_FOUND
    /\ Cardinality({t.user_id : t \in todos}) = 2

\* A delete has been refused because the todo is another user's, and the
\* todo is still stored.
C4_WitnessForbidden ==
    /\ resp.op = "delete_todo" /\ resp.status = HTTP_403_FORBIDDEN
    /\ \E t \in todos : t.id = resp.req.id /\ t.user_id # CallerOf(resp).id

ByCreation(s) == \A i, j \in DOMAIN s : i < j => s[i].created_at <= s[j].created_at

\* C5: a listing is the page [skip, skip + min(limit, maximum)) of the
\* caller's todos in ascending order of creation time.
C5_ListIsSortedPage ==
    (resp.op = "list_todos" /\ resp.status = HTTP_200_OK) =>
        \E s \in Orderings({t \in todos : t.user_id = CallerOf(resp).id}) :
            /\ ByCreation(s)
            /\ resp.rows = OffsetLimit(s, resp.req.skip, Min(resp.req.limit, DefaultLimit))

\* C6: an update by the owner changes, in that one todo, exactly the fields
\* the patch names and leaves id, owner and creation time and every other
\* todo as they were; any other update changes no todo.
C6_UpdateChangesOnlyPatchedFields ==
    [][(resp'.op = "update_todo") =>
            LET patch == resp'.req.patch
                mine == {t \in todos : /\ t.id = resp'.req.id
                                       /\ CallerOf(resp').ok
                                       /\ t.user_id = CallerOf(resp').id} IN
            IF mine = {} THEN todos' = todos /\ resp'.status # HTTP_200_OK
            ELSE \E t \in mine : \E t2 \in todos' :
                    /\ resp'.status = HTTP_200_OK /\ resp'.rows = <<t2>>
                    /\ todos' \ {t2} = todos \ {t}
                    /\ t2.id = t.id /\ t2.user_id = t.user_id /\ t2.created_at = t.created_at
                    /\ t2.title = (IF patch.title = NoTitle THEN t.title ELSE patch.title)
                    /\ t2.completed = (IF patch.completed = "keep" THEN t.completed ELSE patch.completed = "true")]_vars

\* C6 witness: after create and update(completed) the owner's listing shows
\* exactly one todo, completed and with the title it was created with, while
\* a second user is registered.
C6_Witness ==
    /\ resp.op = "list_todos" /\ resp.status = HTTP_200_OK /\ Len(resp.rows) = 1
    /\ resp.rows[1].completed /\ resp.rows[1].title = "Buy milk"
    /\ Range(resp.rows) = todos /\ Cardinality(users) = 2

\* An update of another user's todo has been refused and the todo is as it
\* was created.
C6_WitnessNonOwner ==
    /\ resp.op = "update_todo" /\ resp.status = HTTP_403_FORBIDDEN
    /\ \E t \in todos : t.id = resp.req.id /\ t.user_id # CallerOf(resp).id /\ ~t.completed /\ t.title = "Buy milk"

StoreUnchanged == todos' = todos /\ users' = users

\* The step answers a create whose title is empty, made with a good token.
EmptyTitleCreate == resp'.op = "create_todo" /\ resp'.req.title = NoTitle /\ CallerOf(resp').ok

\* The step answers a todo request whose token get_current_user refuses.
BadTokenRequest == IsTodoOp(resp') /\ ~CallerOf(resp').ok

C9_WitnessBadToken ==
    /\ IsTodoOp(resp) /\ resp.req.token \in ForgedTokens
    /\ resp.status = HTTP_401_UNAUTHORIZED /\ todos # {}

\* ----------------------------------------------------- claims: concurrency
\* C7: at most one user row per email, compared without regard to letter
\* case, also when registrations interleave.
C7_OneUserPerEmailIgnoringCase ==
    \A u1, u2 \in users : Lower(u1.email) = Lower(u2.email) => u1 = u2

\* What the unique index does give: no two rows with the same email string.
ExactEmailUnique == \A u1, u2 \in users : u1.email = u2.email => u1 = u2

\* A stored todo with every field set; with patches that set both fields
\* together, a todo is completed exactly if it carries the patched title.
WholeTodo(t) ==
    /\ t.id >= 1
    /\ t.user_id \in {u.id : u \in users}
    /\ t.title \in Titles
    /\ t.completed <=> t.title = BothFields.title

WholeUser(u) == u.id >= 1 /\ u.email \in Emails /\ u.hashed_password = pwd_hash(GoodPassword)

\* The step is the commit of request r and applies all of r's write.
CommitOf(r) ==
    /\ reqs[r].pc = "commit" /\ reqs'[r].pc # "commit"
    /\ IF reqs[r].op = "create_todo"
       THEN /\ users' = users
            /\ \E o \in reqs[r].pending :
                 todos' = todos \cup {[id |-> NextId(todos), user_id |-> reqs[r].caller,
                                       title |-> reqs[r].req.title, completed |-> FALSE,
                                       created_at |-> o.created_at]}
       ELSE IF reqs[r].op = "update_todo"
       THEN /\ users' = users
            /\ \E t \in todos :
                 /\ t.id = reqs[r].req.id
                 /\ todos' = (todos \ {t}) \cup {[t EXCEPT !.title = reqs[r].req.patch.title, !.completed = TRUE]}
       ELSE /\ todos' = todos
            /\ \E u \in users' \ users : users' = users \cup {u} /\ u.email = reqs[r].email

\* The step is a delete that removes one whole row.
DeleteStep ==
    /\ resp'.op = "delete_todo" /\ resp'.status = HTTP_204_NO_CONTENT
    /\ users' = users
    /\ \E t \in todos : t.id = resp'.req.id /\ todos' = todos \ {t}

\* C8: the store holds only whole rows, it changes only in the one step that
\* commits the whole write of a request (never while the write is being
\* prepared, never when a request is abandoned), and a listing by another
\* request shows only whole rows.
C8_WritesAreAllOrNothing ==
    /\ [](/\ \A t \in todos : WholeTodo(t)
          /\ \A u \in users : WholeUser(u)
          /\ \A t1, t2 \in todos : t1.id = t2.id => t1 = t2
          /\ (resp.op = "list_todos" /\ resp.status = HTTP_200_OK) =>
                \A i \in DOMAIN resp.rows : WholeTodo(resp.rows[i]))
    /\ [][/\ (todos' # todos \/ users' # users) => (DeleteStep \/ \E r \in Slots : CommitOf(r))
          /\ \A r \in Slots :
                (reqs[r] # Idle /\ reqs'[r] = Idle /\ resp' = resp) => StoreUnchanged]_vars

\* C8 witness: an update has set the title in its session and not yet the
\* completion flag, a create waits to commit, and the listing another
\* request has just got shows the stored todo untouched by both.
C8_Witness ==
    /\ \E r \in Slots : At(r, "update_todo", "set_completed") /\ \E t \in reqs[r].pending : t.title = BothFields.title /\ ~t.completed
    /\ \E r \in Slots : At(r, "create_todo", "commit")
    /\ resp.op = "list_todos" /\ resp.status = HTTP_200_OK
    /\ Len(resp.rows) = 1 /\ Range(resp.rows) = todos
    /\ resp.rows[1].title = "Buy milk" /\ ~resp.rows[1].completed
====
